---- MODULE Spec2Model ----
(***************************************************************************)
(* Producer / queue / worker-pool pipeline of the EEL6528 lab programs.    *)
(*                                                                         *)
(* The repository holds several copies of one pattern.  Five of them       *)
(* differ in behaviour and are the values of the variable `variant`:       *)
(*   "lab1"      src/lab1.cpp (and its copies part_004..part_006)          *)
(*   "part_003"  src/unnamed/part_003, lab1.cpp before console_mutex       *)
(*   "rate_test" src/src/sampling_rate_test.cpp                            *)
(*   "rate_sim"  src/sampling_test_sim.cpp                                 *)
(*   "fast_sim"  src/src/lab1_sim_fast.cpp                                 *)
(* Thread ids: workers are 1..NumWorkers, the producer is ProducerId, and  *)
(* 0 stands for "no thread" as the holder of a mutex.                      *)
(***************************************************************************)
EXTENDS Integers, Sequences, FiniteSets, TLC

\* ---------------------------------------------------------------- bounds
\* number of recv() calls the producer may make in one run
MaxRecv == 3
\* queue-depth drop threshold, scaled down from the literals 100 / 50
DropThreshold == 1
\* a report line is printed every PrintEvery-th block (scaled from 100 / 50)
PrintEvery == 2
\* samples in a block whose power is computed, scaled down from 10000
MaxSamples == 3

\* ------------------------------------------------------- program constants
SAMPLES_PER_BLOCK == 10000
\* processing threads: the default value of num_threads
NumWorkers == 2

Variants == {"lab1", "part_003", "rate_test", "rate_sim", "fast_sim"}
\* classes of the sampling_rate argument that sampling_test_sim.cpp compares
\* against 15e6 (overflow_threshold) and 20e6
RateClasses == {"le15M", "le20M", "gt20M"}

Workers == 1..NumWorkers
ProducerId == NumWorkers + 1

VARIABLES
    variant,          \* which program is running
    sampling_rate,    \* class of the sampling-rate argument
    stop_signal,      \* std::atomic<bool> stop_signal
    overflow_count,   \* std::atomic<size_t> overflow_count
    total_blocks,     \* std::atomic<size_t> total_blocks
    dropped_blocks,   \* std::atomic<size_t> dropped_blocks
    max_size,         \* MonitoredSampleQueue::max_size
    queue,            \* SampleQueue::queue
    mtx,              \* holder of SampleQueue::mtx, 0 = free
    console_mutex,    \* holder of console_mutex, 0 = free
    ppc,              \* producer position
    md,               \* md.error_code
    num_rx_samps,     \* value returned by the last recv
    injected,         \* the overflow-injection test after the last recv was true
    block_counter,    \* producer's block_counter
    snap,             \* the size() value read for the drop decision
    recvCount,        \* number of recv calls made
    streamCmds,       \* stream commands issued, in order
    wpc,              \* worker positions
    wblock,           \* the block a worker holds
    blocks_processed, \* per-worker blocks_processed
    ctl,              \* controller (main) position
    nspawned,         \* processing threads started so far
    joined,           \* threads joined so far
    args,             \* class of the command line
    exit_status,      \* how the process has ended, "none" while it runs
    pushLog,          \* history: block numbers in the order push() completed
    popLog,           \* history: <<worker, block number>> in the order pop() succeeded
    peakDepth,        \* history: largest depth a monitored queue had after a push
    stopAt,           \* history: recv calls and pushes made when stop_signal was set
    mpc,              \* monitor thread position, "none" where there is no monitor
    queue_max_size,   \* perf_stats.queue_max_size
    samples,          \* block.samples of the block whose power is computed
    sum_power,        \* the accumulator sum_power
    power_i,          \* position of the range-for over block.samples
    avg_power,        \* avg_power, as a fraction in lowest terms
    first_power,      \* history: the result of the first computation on the block
    power_run,        \* history: computations completed on the block
    power_pc          \* position in the power computation

qvars == <<queue, mtx, max_size>>
pvars == <<ppc, md, num_rx_samps, injected, block_counter, snap, recvCount, streamCmds>>
wvars == <<wpc, wblock, blocks_processed, console_mutex>>
cvars == <<ctl, nspawned, joined, args, exit_status>>
metrics == <<overflow_count, total_blocks, dropped_blocks>>
hvars == <<pushLog, popLog, peakDepth, stopAt>>
monvars == <<mpc, queue_max_size>>
powervars == <<samples, sum_power, power_i, avg_power, first_power, power_run, power_pc>>
pipevars == <<variant, sampling_rate, stop_signal, qvars, pvars, wvars, cvars, metrics, hvars,
              monvars>>
vars == <<pipevars, powervars>>

\* ------------------------------------------------------ variant features
\* the producer classifies md.error_code (Timeout / Overflow / other)
HandlesTimeout(v) == v \in {"lab1", "part_003", "rate_test"}
HandlesOverflow(v) == v \in {"lab1", "part_003", "rate_test", "rate_sim"}
HandlesOtherError(v) == v \in {"lab1", "part_003", "rate_test"}
\* the producer consults size() before pushing
HasDropPolicy(v) == v \in {"rate_test", "rate_sim"}
\* the producer issues STREAM_MODE_STOP_CONTINUOUS after its loop
HasStopCmd(v) == v \in {"lab1", "part_003", "rate_test"}
\* the queue is a MonitoredSampleQueue
HasMaxSize(v) == v \in {"rate_test", "rate_sim"}
\* recv is the real driver call, which writes md.error_code
HardwareRecv(v) == v \in {"lab1", "part_003", "rate_test"}
\* the producer and the workers print their progress lines under console_mutex
LocksProgressLines(v) == v = "lab1"
\* the workers write their per-block report under console_mutex
LocksReport(v) == v # "part_003"
\* main starts a monitor_thread, which copies max_size into perf_stats
HasMonitor(v) == v = "rate_test"
\* main copies max_size into perf_stats itself before it prints the report
MainCopiesMaxSize(v) == v = "rate_sim"
\* the producer checks the LO-lock sensor and gives up if it is not locked
ChecksLoLock(v) == v \in {"lab1", "part_003"}

NoBlock == [block_number |-> 0, num_samples |-> 0]
SampleBlock(num, n) == [block_number |-> num, num_samples |-> n]

\* command lines: all arguments numeric and as many as the program wants; a
\* number of arguments the program refuses; an argument that is not a number
ArgCases == {"ok", "bad_count", "not_a_number"}

\* the program insists on exactly three arguments (argc != 4 is refused); the
\* others take any number of arguments and ignore those beyond the third
ChecksArgCount(v) == v \in {"rate_test", "rate_sim"}

\* no result yet
NoPower == [num |-> 0, den |-> 0]

\* the power computation is modelled on its own, apart from the pipeline
PowerOff ==
    /\ samples = <<>>
    /\ sum_power = 0
    /\ power_i = 0
    /\ avg_power = NoPower
    /\ first_power = NoPower
    /\ power_run = 0
    /\ power_pc = "off"

\* the globals, the queue and main before any thread is created
PipelineStart ==
    /\ variant \in Variants
    /\ sampling_rate \in RateClasses
    /\ (variant # "rate_sim" => sampling_rate = "le15M")
    /\ stop_signal = FALSE
    /\ overflow_count = 0
    /\ total_blocks = 0
    /\ dropped_blocks = 0
    /\ max_size = 0
    /\ queue = <<>>
    /\ mtx = 0
    /\ console_mutex = 0
    /\ ppc = "unstarted"
    /\ md = "NONE"
    /\ num_rx_samps = 0
    /\ injected = FALSE
    /\ block_counter = 0
    /\ snap = 0
    /\ recvCount = 0
    /\ streamCmds = <<>>
    /\ wpc = [w \in Workers |-> "unstarted"]
    /\ wblock = [w \in Workers |-> NoBlock]
    /\ blocks_processed = [w \in Workers |-> 0]
    /\ ctl = "idle"
    /\ nspawned = 0
    /\ joined = 0
    /\ args \in ArgCases
    /\ (args = "bad_count" => ChecksArgCount(variant))
    /\ exit_status = "none"
    /\ pushLog = <<>>
    /\ popLog = <<>>
    /\ peakDepth = 0
    /\ stopAt = [recv |-> 0, pushed |-> 0]
    /\ queue_max_size = 0

\* the pipeline without a monitor thread
PipelineInit == PipelineStart /\ mpc = "none"

Init == PipelineInit /\ PowerOff

\* ------------------------------------------------------------- the queue
\* std::queue::push / front / pop on the underlying container
\* mutant: push() inserts at the head
QueuePushFront(q, b) == <<b>> \o q

\* mutant: push() stores the block twice
QueuePushTwice(q, b) == Append(Append(q, b), b)

QueuePush(q, b) == Append(q, b)

\* mutant: pop() hands out the newest block
QueueBack(q) == q[Len(q)]

QueueFront(q) == Head(q)

\* mutant: pop() leaves the block in the container
QueueKeep(q) == q

QueuePop(q) == Tail(q)

\* mutant: push() stores the current depth unconditionally
UpdateMaxSizeOverwrites(m, current_size) == current_size

\* the compare-exchange loop of MonitoredSampleQueue::push, run under mtx
UpdateMaxSize(m, current_size) == IF current_size > m THEN current_size ELSE m

\* mutant: cv.wait returns whatever the queue and the flag say
WaitPredicateSkipped == TRUE

\* the predicate of cv.wait in pop()
WaitPredicate == queue # <<>> \/ stop_signal

\* threads blocked inside cv.wait
Waiters == {w \in Workers : wpc[w] = "waiting"}

\* cv.notify_all(): every waiter is unblocked
NotifyAll(pc) == [w \in Workers |-> IF pc[w] = "waiting" THEN "pop_relock" ELSE pc[w]]

\* mutant: push() notifies nobody
NotifyNone(pc) == {pc}

\* mutant: push() wakes every waiter
NotifyOneWakesAll(pc) == {NotifyAll(pc)}

\* cv.notify_one(): one waiter, if there is any, is unblocked
NotifyOne(pc) ==
    IF Waiters = {} THEN {pc}
    ELSE {[pc EXCEPT ![w] = "pop_relock"] : w \in Waiters}

\* ---------------------------------------------------------- the producer
\* what the driver's recv can return: <<num_rx_samps, md.error_code>>
RecvResults ==
    { <<SAMPLES_PER_BLOCK, "NONE">>, <<SAMPLES_PER_BLOCK - 1, "NONE">>,
      <<0, "TIMEOUT">>, <<SAMPLES_PER_BLOCK, "OVERFLOW">>, <<0, "OTHER">> }

\* mutant: the producer returns straight from its loop
AfterLoopReturns(v) == "done"

\* where the producer goes when it leaves its loop
AfterLoop(v) == IF HasStopCmd(v) THEN "stop_cmd" ELSE "done"

\* mutant: the producer never drops
DropNever(v, rate, sz) == FALSE

\* the drop condition evaluated on the size() snapshot
DropCondition(v, rate, sz) ==
    IF v = "rate_sim" THEN sz > DropThreshold /\ rate = "gt20M"
    ELSE sz > DropThreshold

\* rx_streamer_thread up to the start of streaming: parameter set-up, the
\* console prints, the LO-lock check of the hardware build
PConfigure ==
    /\ ppc = "start"
    /\ (variant \notin {"fast_sim", "part_003"} => console_mutex = 0)
    /\ \E lo_locked \in BOOLEAN :
         /\ (~ChecksLoLock(variant) => lo_locked)
         /\ ppc' = IF lo_locked THEN "stream_start" ELSE "done"
    /\ UNCHANGED <<variant, sampling_rate, powervars, monvars, stop_signal, qvars, md, num_rx_samps, injected,
                   block_counter, snap, recvCount, streamCmds, wvars, cvars,
                   metrics, hvars>>

\* rx_stream->issue_stream_cmd(STREAM_MODE_START_CONTINUOUS)
PStreamStart ==
    /\ ppc = "stream_start"
    /\ streamCmds' = Append(streamCmds, "START")
    /\ ppc' = "loop"
    /\ UNCHANGED <<variant, sampling_rate, powervars, monvars, stop_signal, qvars, md, num_rx_samps, injected,
                   block_counter, snap, recvCount, wvars, cvars, metrics, hvars>>

\* mutant: the loop condition does not read stop_signal
PLoopIgnoresStop ==
    /\ ppc = "loop"
    /\ recvCount < MaxRecv
    /\ ppc' = "recv"
    /\ UNCHANGED <<variant, sampling_rate, powervars, monvars, stop_signal, qvars, md, num_rx_samps, injected,
                   block_counter, snap, recvCount, streamCmds, wvars, cvars,
                   metrics, hvars>>

\* while (!stop_signal.load())
PLoop ==
    /\ ppc = "loop"
    /\ stop_signal \/ recvCount < MaxRecv
    /\ ppc' = IF stop_signal THEN AfterLoop(variant) ELSE "recv"
    /\ UNCHANGED <<variant, sampling_rate, powervars, monvars, stop_signal, qvars, md, num_rx_samps, injected,
                   block_counter, snap, recvCount, streamCmds, wvars, cvars,
                   metrics, hvars>>

\* rx_stream->recv(...); the simulated recv returns a full buffer and does
\* not write md; sampling_test_sim.cpp then injects an overflow code
PRecv ==
    /\ ppc = "recv"
    /\ recvCount' = recvCount + 1
    /\ IF HardwareRecv(variant)
         THEN /\ \E r \in RecvResults : num_rx_samps' = r[1] /\ md' = r[2]
              /\ injected' = FALSE
         ELSE /\ num_rx_samps' = SAMPLES_PER_BLOCK
              /\ \E inject \in BOOLEAN :
                   /\ (inject => variant = "rate_sim" /\ sampling_rate # "le15M")
                   /\ injected' = inject
                   /\ md' = IF inject THEN "OVERFLOW" ELSE md
    /\ ppc' = "classify"
    /\ UNCHANGED <<variant, sampling_rate, powervars, monvars, stop_signal, qvars, block_counter, snap,
                   streamCmds, wvars, cvars, metrics, hvars>>

\* where a Timeout code sends the producer
TimeoutTarget(v) == IF v = "rate_test" THEN "loop" ELSE AfterLoop(v)

\* mutant: a numbered block is discarded instead of being queued
FullBlockTargetDiscards(v) == "loop"

\* where a full block goes after it got its number
FullBlockTarget(v) == IF HasDropPolicy(v) THEN "size_check" ELSE "push_lock"

\* mutant: the block-length test comes before the overflow test
ClassifyLengthFirst(v, code, n) ==
    IF HandlesTimeout(v) /\ code = "TIMEOUT" THEN "timeout"
    ELSE IF n = SAMPLES_PER_BLOCK /\ code \in {"NONE", "OVERFLOW"} THEN "full"
    ELSE IF HandlesOverflow(v) /\ code = "OVERFLOW" THEN "overflow"
    ELSE IF HandlesOtherError(v) /\ code # "NONE" THEN "error"
    ELSE "partial"

\* mutant: the block-length test is missing
ClassifyIgnoresLength(v, code, n) ==
    IF HandlesTimeout(v) /\ code = "TIMEOUT" THEN "timeout"
    ELSE IF HandlesOverflow(v) /\ code = "OVERFLOW" THEN "overflow"
    ELSE IF HandlesOtherError(v) /\ code # "NONE" THEN "error"
    ELSE "full"

\* the chain of tests on md.error_code and num_rx_samps after recv, in the
\* order the code makes them
Classify(v, code, n) ==
    IF HandlesTimeout(v) /\ code = "TIMEOUT" THEN "timeout"
    ELSE IF HandlesOverflow(v) /\ code = "OVERFLOW" THEN "overflow"
    ELSE IF HandlesOtherError(v) /\ code # "NONE" THEN "error"
    ELSE IF n = SAMPLES_PER_BLOCK THEN "full"
    ELSE "partial"

\* mutant: the block number is not advanced
NextBlockNumberReused(c) == c

\* block_counter++ in the construction of a SampleBlock
NextBlockNumber(c) == c + 1

\* the producer's reaction to the result of one recv
PClassify ==
    /\ ppc = "classify"
    /\ LET kind == Classify(variant, md, num_rx_samps) IN
       /\ ppc' = CASE kind = "timeout" -> TimeoutTarget(variant)
                   [] kind = "error" -> AfterLoop(variant)
                   [] kind = "full" -> FullBlockTarget(variant)
                   [] OTHER -> "loop"
       /\ overflow_count' = IF kind = "overflow" THEN overflow_count + 1
                            ELSE overflow_count
       /\ block_counter' = IF kind = "full" THEN NextBlockNumber(block_counter)
                           ELSE block_counter
       /\ md' = IF kind = "partial" /\ variant = "rate_sim" THEN "NONE" ELSE md
    /\ UNCHANGED <<variant, sampling_rate, powervars, monvars, stop_signal, qvars, num_rx_samps, injected, snap,
                   recvCount, streamCmds, wvars, cvars, total_blocks,
                   dropped_blocks, hvars>>

\* sample_queue.size() called by the producer
PSizeCheck ==
    /\ ppc = "size_check"
    /\ mtx = 0
    /\ snap' = Len(queue)
    /\ ppc' = "decide"
    /\ UNCHANGED <<variant, sampling_rate, powervars, monvars, stop_signal, qvars, md, num_rx_samps, injected,
                   block_counter, recvCount, streamCmds, wvars, cvars, metrics,
                   hvars>>

\* if (size() > threshold) { dropped_blocks++; continue; }
PDecide ==
    /\ ppc = "decide"
    /\ IF DropCondition(variant, sampling_rate, snap)
         THEN /\ dropped_blocks' = dropped_blocks + 1
              /\ ppc' = "loop"
         ELSE /\ ppc' = "push_lock"
              /\ UNCHANGED dropped_blocks
    /\ UNCHANGED <<variant, sampling_rate, powervars, monvars, stop_signal, qvars, md, num_rx_samps, injected,
                   block_counter, snap, recvCount, streamCmds, wvars, cvars,
                   overflow_count, total_blocks, hvars>>

\* mutant: push() enters its body without waiting for the mutex
PushLockBarges ==
    /\ ppc = "push_lock"
    /\ mtx' = ProducerId
    /\ ppc' = "push_body"
    /\ UNCHANGED <<variant, sampling_rate, powervars, monvars, stop_signal, queue, max_size, md,
                   num_rx_samps, injected, block_counter, snap, recvCount, streamCmds,
                   wvars, cvars, metrics, hvars>>

\* push(): std::unique_lock<std::mutex> lock(mtx)
PushLock ==
    /\ ppc = "push_lock"
    /\ mtx = 0
    /\ mtx' = ProducerId
    /\ ppc' = "push_body"
    /\ UNCHANGED <<variant, sampling_rate, powervars, monvars, stop_signal, queue, max_size, md,
                   num_rx_samps, injected, block_counter, snap, recvCount, streamCmds,
                   wvars, cvars, metrics, hvars>>

\* mutant: the producer skips total_blocks++ after push()
AfterPushSkipsCount(v) == "loop"

\* where the producer goes when push() has returned
AfterPush(v) == IF HasDropPolicy(v) THEN "count" ELSE "loop"

\* push(): queue.push(block); max_size update; cv.notify_one(); unlock
PushBody ==
    /\ ppc = "push_body"
    /\ queue' = QueuePush(queue, SampleBlock(block_counter - 1, SAMPLES_PER_BLOCK))
    /\ max_size' = IF HasMaxSize(variant) THEN UpdateMaxSize(max_size, Len(queue'))
                   ELSE max_size
    /\ wpc' \in NotifyOne(wpc)
    /\ mtx' = 0
    /\ pushLog' = Append(pushLog, block_counter - 1)
    /\ peakDepth' = IF HasMaxSize(variant) /\ Len(queue') > peakDepth
                    THEN Len(queue') ELSE peakDepth
    /\ ppc' = AfterPush(variant)
    /\ UNCHANGED <<variant, sampling_rate, powervars, monvars, stop_signal, md, num_rx_samps, injected,
                   block_counter, snap, recvCount, streamCmds, wblock,
                   blocks_processed, console_mutex, cvars, metrics, popLog,
                   stopAt>>

\* mutant: total_blocks is a one-bit counter
PCountWraps ==
    /\ ppc = "count"
    /\ total_blocks' = (total_blocks + 1) % 2
    /\ md' = IF variant = "rate_sim" THEN "NONE" ELSE md
    /\ ppc' = "loop"
    /\ UNCHANGED <<variant, sampling_rate, powervars, monvars, stop_signal, qvars, num_rx_samps,
                   injected, block_counter, snap, recvCount, streamCmds, wvars, cvars,
                   overflow_count, dropped_blocks, hvars>>

\* total_blocks++ and, in sampling_test_sim.cpp, the reset of md.error_code
PCount ==
    /\ ppc = "count"
    /\ total_blocks' = total_blocks + 1
    /\ md' = IF variant = "rate_sim" THEN "NONE" ELSE md
    /\ ppc' = "loop"
    /\ UNCHANGED <<variant, sampling_rate, powervars, monvars, stop_signal, qvars, num_rx_samps, injected,
                   block_counter, snap, recvCount, streamCmds, wvars, cvars,
                   overflow_count, dropped_blocks, hvars>>

\* mutant: the producer raises stop_signal itself when it leaves
PStreamStopSignals ==
    /\ ppc = "stop_cmd"
    /\ streamCmds' = Append(streamCmds, "STOP")
    /\ stop_signal' = TRUE
    /\ ppc' = "done"
    /\ UNCHANGED <<variant, sampling_rate, powervars, monvars, qvars, md, num_rx_samps, injected,
                   block_counter, snap, recvCount, wvars, cvars, metrics, hvars>>

\* rx_stream->issue_stream_cmd(STREAM_MODE_STOP_CONTINUOUS)
PStreamStop ==
    /\ ppc = "stop_cmd"
    /\ streamCmds' = Append(streamCmds, "STOP")
    /\ ppc' = "done"
    /\ UNCHANGED <<variant, sampling_rate, powervars, monvars, stop_signal, qvars, md, num_rx_samps, injected,
                   block_counter, snap, recvCount, wvars, cvars, metrics, hvars>>

\* ----------------------------------------------------------- the workers
\* the variants that print a report line for every block
PrintsEveryBlock(v) == v \in {"lab1", "part_003"}

\* processing_thread before its loop: lab1.cpp prints "started" under the
\* console mutex
WStart(w) ==
    /\ wpc[w] = "start"
    /\ (LocksProgressLines(variant) => console_mutex = 0)
    /\ wpc' = [wpc EXCEPT ![w] = "loop"]
    /\ UNCHANGED <<variant, sampling_rate, powervars, monvars, stop_signal, qvars, pvars, wblock,
                   blocks_processed, console_mutex, cvars, metrics, hvars>>

\* while (!stop_signal.load())
WLoop(w) ==
    /\ wpc[w] = "loop"
    /\ wpc' = [wpc EXCEPT ![w] = IF stop_signal THEN "exit" ELSE "pop_lock"]
    /\ UNCHANGED <<variant, sampling_rate, powervars, monvars, stop_signal, qvars, pvars, wblock,
                   blocks_processed, console_mutex, cvars, metrics, hvars>>

\* pop(): std::unique_lock<std::mutex> lock(mtx), and the re-acquisition of
\* mtx by a thread that cv.wait has unblocked
PopLock(w) ==
    /\ wpc[w] \in {"pop_lock", "pop_relock"}
    /\ mtx = 0
    /\ mtx' = w
    /\ wpc' = [wpc EXCEPT ![w] = "pop_pred"]
    /\ UNCHANGED <<variant, sampling_rate, powervars, monvars, stop_signal, queue, max_size, pvars,
                   wblock, blocks_processed, console_mutex, cvars, metrics, hvars>>

\* cv.wait(lock, pred): the predicate is evaluated with mtx held
PopPred(w) ==
    /\ wpc[w] = "pop_pred"
    /\ wpc' = [wpc EXCEPT ![w] = IF WaitPredicate THEN "pop_check" ELSE "pop_wait"]
    /\ UNCHANGED <<variant, sampling_rate, powervars, monvars, stop_signal, qvars, pvars, wblock,
                   blocks_processed, console_mutex, cvars, metrics, hvars>>

\* cv.wait(lock): release mtx and block, atomically
PopWait(w) ==
    /\ wpc[w] = "pop_wait"
    /\ mtx' = 0
    /\ wpc' = [wpc EXCEPT ![w] = "waiting"]
    /\ UNCHANGED <<variant, sampling_rate, powervars, monvars, stop_signal, queue, max_size, pvars,
                   wblock, blocks_processed, console_mutex, cvars, metrics, hvars>>

\* a spurious wakeup, which std::condition_variable::wait permits
SpuriousWake(w) ==
    /\ wpc[w] = "waiting"
    /\ wpc' = [wpc EXCEPT ![w] = "pop_relock"]
    /\ UNCHANGED <<variant, sampling_rate, powervars, monvars, stop_signal, qvars, pvars, wblock,
                   blocks_processed, console_mutex, cvars, metrics, hvars>>

\* mutant: pop() returns with the queue mutex still locked
PopCheckKeepsLock(w) ==
    /\ wpc[w] = "pop_check"
    /\ IF queue # <<>>
         THEN /\ wblock' = [wblock EXCEPT ![w] = QueueFront(queue)]
              /\ queue' = QueuePop(queue)
              /\ popLog' = Append(popLog, <<w, QueueFront(queue).block_number>>)
              /\ wpc' = [wpc EXCEPT ![w] = "process"]
         ELSE /\ wpc' = [wpc EXCEPT ![w] = "exit"]
              /\ UNCHANGED <<queue, wblock, popLog>>
    /\ UNCHANGED <<variant, sampling_rate, powervars, monvars, stop_signal, mtx, max_size,
                   pvars, blocks_processed, console_mutex, cvars, metrics,
                   pushLog, peakDepth, stopAt>>

\* pop() after the wait: the two tests and the three returns
PopCheck(w) ==
    /\ wpc[w] = "pop_check"
    /\ mtx' = 0
    /\ IF stop_signal /\ queue = <<>>
         THEN /\ wpc' = [wpc EXCEPT ![w] = "exit"]
              /\ UNCHANGED <<queue, wblock, popLog>>
         ELSE IF queue # <<>>
         THEN /\ wblock' = [wblock EXCEPT ![w] = QueueFront(queue)]
              /\ queue' = QueuePop(queue)
              /\ popLog' = Append(popLog, <<w, QueueFront(queue).block_number>>)
              /\ wpc' = [wpc EXCEPT ![w] = "process"]
         ELSE /\ wpc' = [wpc EXCEPT ![w] = "exit"]
              /\ UNCHANGED <<queue, wblock, popLog>>
    /\ UNCHANGED <<variant, sampling_rate, powervars, monvars, stop_signal, max_size, pvars,
                   blocks_processed, console_mutex, cvars, metrics, pushLog,
                   peakDepth, stopAt>>

\* the power computation; the variants that print every N-th block count the
\* block here and decide whether to print
WProcess(w) ==
    /\ wpc[w] = "process"
    /\ IF PrintsEveryBlock(variant)
         THEN /\ wpc' = [wpc EXCEPT ![w] = "report"]
              /\ UNCHANGED blocks_processed
         ELSE /\ blocks_processed' = [blocks_processed EXCEPT ![w] = @ + 1]
              /\ wpc' = [wpc EXCEPT ![w] =
                           IF blocks_processed'[w] % PrintEvery = 0
                           THEN "report" ELSE "loop"]
    /\ UNCHANGED <<variant, sampling_rate, powervars, monvars, stop_signal, qvars, pvars, wblock,
                   console_mutex, cvars, metrics, hvars>>

\* std::lock_guard<std::mutex> lock(console_mutex) of the report
ReportLock(w) ==
    /\ wpc[w] = "report"
    /\ IF LocksReport(variant)
         THEN console_mutex = 0 /\ console_mutex' = w
         ELSE UNCHANGED console_mutex
    /\ wpc' = [wpc EXCEPT ![w] = "report_size"]
    /\ UNCHANGED <<variant, sampling_rate, powervars, monvars, stop_signal, qvars, pvars, wblock,
                   blocks_processed, cvars, metrics, hvars>>

\* the report line, which calls sample_queue.size(), and the end of the
\* locked scope; lab1.cpp counts the block after it
ReportSize(w) ==
    /\ wpc[w] = "report_size"
    /\ mtx = 0
    /\ console_mutex' = IF console_mutex = w THEN 0 ELSE console_mutex
    /\ blocks_processed' = IF PrintsEveryBlock(variant)
                           THEN [blocks_processed EXCEPT ![w] = @ + 1]
                           ELSE blocks_processed
    /\ wpc' = [wpc EXCEPT ![w] = "loop"]
    /\ UNCHANGED <<variant, sampling_rate, powervars, monvars, stop_signal, qvars, pvars, wblock,
                   cvars, metrics, hvars>>

\* processing_thread after its loop: lab1.cpp prints "stopped" under the
\* console mutex
WExit(w) ==
    /\ wpc[w] = "exit"
    /\ (LocksProgressLines(variant) => console_mutex = 0)
    /\ wpc' = [wpc EXCEPT ![w] = "done"]
    /\ UNCHANGED <<variant, sampling_rate, powervars, monvars, stop_signal, qvars, pvars, wblock,
                   blocks_processed, console_mutex, cvars, metrics, hvars>>

\* ------------------------------------------------------- the controller
\* mutant: the arguments are not examined
ArgsAcceptedAlways(v, a) == TRUE

\* the argument count test passes and std::stod / std::stoi do not throw
ArgsAccepted(v, a) == a = "ok"

\* main with a bad command line: the usage text and return -1, or the
\* uncaught std::invalid_argument of std::stod / std::stoi ending the process
CtlReject ==
    /\ ctl = "idle"
    /\ exit_status = "none"
    /\ ~ArgsAccepted(variant, args)
    /\ exit_status' = "nonzero"
    /\ UNCHANGED <<variant, sampling_rate, powervars, monvars, stop_signal, qvars, pvars, wvars,
                   ctl, nspawned, joined, args, metrics, hvars>>

\* threads.emplace_back(monitor_thread), the first thread main creates
CtlStartMonitor ==
    /\ ctl = "idle"
    /\ ArgsAccepted(variant, args)
    /\ mpc = "unstarted"
    /\ mpc' = "loop"
    /\ UNCHANGED <<variant, sampling_rate, powervars, queue_max_size, stop_signal,
                   qvars, pvars, wvars, cvars, metrics, hvars>>

\* threads.emplace_back(rx_streamer_thread, ...)
CtlStartProducer ==
    /\ ctl = "idle"
    /\ ArgsAccepted(variant, args)
    /\ mpc # "unstarted"
    /\ ppc' = "start"
    /\ ctl' = "spawning"
    /\ UNCHANGED <<variant, sampling_rate, powervars, monvars, stop_signal, qvars, md, num_rx_samps, injected,
                   block_counter, snap, recvCount, streamCmds, wvars, nspawned,
                   joined, args, exit_status, metrics, hvars>>

\* threads.emplace_back(processing_thread, i + 1)
CtlStartWorker ==
    /\ ctl = "spawning"
    /\ nspawned' = nspawned + 1
    /\ wpc' = [wpc EXCEPT ![nspawned + 1] = "start"]
    /\ ctl' = IF nspawned + 1 = NumWorkers THEN "running" ELSE "spawning"
    /\ UNCHANGED <<variant, sampling_rate, powervars, monvars, stop_signal, qvars, pvars, wblock,
                   blocks_processed, console_mutex, joined, args, exit_status,
                   metrics, hvars>>

\* the run-time sleep ends: stop_signal.store(true)
CtlStop ==
    /\ ctl = "running"
    /\ stop_signal' = TRUE
    /\ ctl' = "stopping"
    /\ stopAt' = [recv |-> recvCount, pushed |-> Len(pushLog)]
    /\ UNCHANGED <<variant, sampling_rate, powervars, monvars, qvars, pvars, wvars, nspawned, joined,
                   args, exit_status, metrics, pushLog, popLog, peakDepth>>

\* sample_queue.notify_all()
CtlNotifyAll ==
    /\ ctl = "stopping"
    /\ wpc' = NotifyAll(wpc)
    /\ ctl' = "joining"
    /\ UNCHANGED <<variant, sampling_rate, powervars, monvars, stop_signal, qvars, pvars, wblock,
                   blocks_processed, console_mutex, nspawned, joined, args,
                   exit_status, metrics, hvars>>

\* mutant: join() returns without waiting for the thread
ThreadFinishedAlways(i) == TRUE

\* the thread joined next has run to its end: the producer, joined after the
\* monitor thread where there is one, then processing thread i
ThreadFinished(i) ==
    IF i = 0 THEN ppc = "done" /\ mpc \in {"none", "done"} ELSE wpc[i] = "done"

\* for (auto& t : threads) t.join(), and after the last join the report,
\* for which sampling_test_sim.cpp first copies max_size into perf_stats
CtlJoin ==
    /\ ctl = "joining"
    /\ ThreadFinished(joined)
    /\ joined' = joined + 1
    /\ ctl' = IF joined = NumWorkers THEN "terminated" ELSE "joining"
    /\ exit_status' = IF joined = NumWorkers THEN "zero" ELSE exit_status
    /\ queue_max_size' = IF joined = NumWorkers /\ MainCopiesMaxSize(variant)
                         THEN max_size ELSE queue_max_size
    /\ UNCHANGED <<variant, sampling_rate, powervars, mpc, stop_signal, qvars, pvars, wvars,
                   nspawned, args, metrics, hvars>>

\* ----------------------------------------------------- the monitor thread
\* while (!stop_signal.load()), followed by the two-second sleep
MLoop ==
    /\ mpc = "loop"
    /\ mpc' = IF stop_signal THEN "done" ELSE "sleep"
    /\ UNCHANGED <<variant, sampling_rate, powervars, queue_max_size, stop_signal,
                   qvars, pvars, wvars, cvars, metrics, hvars>>

\* perf_stats.queue_max_size = sample_queue.get_max_size() after the sleep
MUpdate ==
    /\ mpc = "sleep"
    /\ queue_max_size' = max_size
    /\ mpc' = "loop"
    /\ UNCHANGED <<variant, sampling_rate, powervars, stop_signal, qvars, pvars,
                   wvars, cvars, metrics, hvars>>

Monitor == MLoop \/ MUpdate

Producer ==
    \/ PConfigure \/ PStreamStart \/ PLoop \/ PRecv \/ PClassify \/ PSizeCheck
    \/ PDecide \/ PushLock \/ PushBody \/ PCount \/ PStreamStop

Worker(w) ==
    \/ WStart(w) \/ WLoop(w) \/ PopLock(w) \/ PopPred(w) \/ PopWait(w)
    \/ PopCheck(w) \/ WProcess(w) \/ ReportLock(w) \/ ReportSize(w) \/ WExit(w)

Controller ==
    \/ CtlReject \/ CtlStartProducer \/ CtlStartWorker \/ CtlStop
    \/ CtlNotifyAll \/ CtlJoin

Next ==
    \/ Producer
    \/ \E w \in Workers : Worker(w)
    \/ \E w \in Workers : SpuriousWake(w)
    \/ Controller

Spec == Init /\ [][Next]_vars

\* every thread that can take a step eventually takes one; a spurious wakeup
\* may happen but is never owed
FairSpec ==
    /\ Spec
    /\ WF_vars(Producer)
    /\ WF_vars(Controller)
    /\ \A w \in Workers : WF_vars(Worker(w))

\* the producer has left its loop because recv reported Timeout (where that
\* breaks the loop) or an error it does not classify
FatalProducerExit ==
    /\ ppc \in {"stop_cmd", "done"}
    /\ \/ md = "OTHER"
       \/ md = "TIMEOUT" /\ TimeoutTarget(variant) # "loop"

\* A run whose configured run time is longer than the producer lives: main's
\* sleep_for does not return once the producer has ended on a fatal error.
CtlStopWhileHealthy == ~FatalProducerExit /\ CtlStop

ControllerLongRun ==
    \/ CtlReject \/ CtlStartProducer \/ CtlStartWorker \/ CtlStopWhileHealthy
    \/ CtlNotifyAll \/ CtlJoin

LongRunNext ==
    \/ Producer
    \/ \E w \in Workers : Worker(w)
    \/ \E w \in Workers : SpuriousWake(w)
    \/ ControllerLongRun

LongRunSpec ==
    /\ Init /\ [][LongRunNext]_vars
    /\ WF_vars(Producer)
    /\ WF_vars(ControllerLongRun)
    /\ \A w \in Workers : WF_vars(Worker(w))

\* --------------------------------------------- runs with the monitor thread
\* The monitor thread of sampling_rate_test.cpp reads stop_signal and max_size
\* and writes only perf_stats, which nothing reads before main's report; it
\* takes no part in the runs of Spec and is run here, beside the simulator
\* whose main makes the copy itself.
MonitorInit ==
    /\ PipelineStart
    /\ PowerOff
    /\ HasMaxSize(variant)
    /\ mpc = IF HasMonitor(variant) THEN "unstarted" ELSE "none"

MonitorNext == Next \/ CtlStartMonitor \/ Monitor

MonitorSpec == MonitorInit /\ [][MonitorNext]_vars

\* ------------------------------------------------ the power computation
\* I and Q values of a sample
SampleValues == {-1, 0, 1, 2}

\* a sample is <<I, Q>>; the blocks considered
SampleBlocks ==
    UNION {[1..n -> SampleValues \X SampleValues] : n \in 1..MaxSamples}

\* mutant: the imaginary part is left out
NormRealOnly(x) == x[1] * x[1]

\* std::norm(sample)
Norm(x) == x[1] * x[1] + x[2] * x[2]

RECURSIVE Gcd(_, _)
Gcd(a, b) == IF b = 0 THEN a ELSE Gcd(b, a % b)

\* sum_power / block.samples.size(): the quotient as a fraction in lowest terms
Quotient(n, d) == [num |-> n \div Gcd(n, d), den |-> d \div Gcd(n, d)]

PowerInit ==
    /\ PipelineInit
    /\ variant = "lab1"
    /\ samples \in SampleBlocks
    /\ sum_power = 0
    /\ power_i = 1
    /\ avg_power = NoPower
    /\ first_power = NoPower
    /\ power_run = 0
    /\ power_pc = "loop"

\* for (const auto& sample : block.samples) sum_power += std::norm(sample)
PowerAccumulate ==
    /\ power_pc = "loop"
    /\ power_i <= Len(samples)
    /\ sum_power' = sum_power + Norm(samples[power_i])
    /\ power_i' = power_i + 1
    /\ UNCHANGED <<pipevars, samples, avg_power, first_power, power_run, power_pc>>

\* double avg_power = sum_power / block.samples.size()
PowerDivide ==
    /\ power_pc = "loop"
    /\ power_i > Len(samples)
    /\ avg_power' = Quotient(sum_power, Len(samples))
    /\ first_power' = IF power_run = 0 THEN avg_power' ELSE first_power
    /\ power_run' = power_run + 1
    /\ power_pc' = "done"
    /\ UNCHANGED <<pipevars, samples, sum_power, power_i>>

\* the same computation made a second time on the same block
PowerAgain ==
    /\ power_pc = "done"
    /\ power_run = 1
    /\ sum_power' = 0
    /\ power_i' = 1
    /\ power_pc' = "loop"
    /\ UNCHANGED <<pipevars, samples, avg_power, first_power, power_run>>

PowerNext == PowerAccumulate \/ PowerDivide \/ PowerAgain

PowerSpec == PowerInit /\ [][PowerNext]_vars

\* ------------------------------------------------------------ the claims
\* positions of a worker inside pop()
InPop(w) == wpc[w] \in {"pop_lock", "pop_pred", "pop_wait", "waiting", "pop_relock", "pop_check"}

\* C1: once stop_signal is stored and notify_all() has been called, every
\* processing thread eventually leaves pop() and ends, and main's joins
\* complete.
ShutdownLiveness ==
    (ctl = "joining") ~> ((\A w \in Workers : wpc[w] = "done") /\ ctl = "terminated")

\* C2: pop() returns true only by removing the front block and handing that
\* block to its caller, returns false only when stop_signal is set and the
\* queue is empty, and does not return while the queue is empty and
\* stop_signal is false.
PopContract ==
    [][\A w \in Workers :
        /\ (wpc[w] = "pop_check" /\ wpc'[w] = "process") =>
              /\ queue # <<>>
              /\ wblock'[w] = Head(queue)
              /\ queue' = Tail(queue)
        /\ (wpc[w] = "pop_check" /\ wpc'[w] = "exit") =>
              /\ stop_signal
              /\ queue = <<>>
              /\ queue' = queue
              /\ wblock'[w] = wblock[w]
        /\ (InPop(w) /\ queue = <<>> /\ ~stop_signal) => InPop(w)']_vars

\* C2 witness: a worker has been handed block 1 while a later block is queued
PopContractWitness ==
    \E w \in Workers : wpc[w] = "process" /\ wblock[w].block_number = 1 /\ queue # <<>>

\* C3: the blocks in the order their pop() succeeded are the blocks in the
\* order their push() completed; the block numbers in global pop order are
\* strictly increasing.
GlobalFifo ==
    /\ Len(popLog) <= Len(pushLog)
    /\ \A i \in 1..Len(popLog) : popLog[i][2] = pushLog[i]
    /\ \A i, j \in 1..Len(popLog) : i < j => popLog[i][2] < popLog[j][2]

\* C3 witness: three pops by two workers, the first worker's stream has a gap
GlobalFifoWitness ==
    /\ Len(popLog) = 3
    /\ popLog[1][1] = popLog[3][1]
    /\ popLog[2][1] # popLog[1][1]

\* C4: no block is returned by two pop() calls, whether by two workers or
\* twice by one, and no two workers hold the same block.
ExactlyOnce ==
    /\ \A i, j \in 1..Len(popLog) : i # j => popLog[i][2] # popLog[j][2]
    /\ \A v, w \in Workers :
         (v # w /\ wpc[v] \in {"process", "report", "report_size"}
                /\ wpc[w] \in {"process", "report", "report_size"}) =>
            wblock[v].block_number # wblock[w].block_number

\* C4 witness: both workers hold a block at the same time
ExactlyOnceWitness ==
    /\ \A w \in Workers : wpc[w] = "process"
    /\ Len(popLog) >= 2

\* C5: when all threads are joined, every numbered block was popped by a
\* worker or counted in dropped_blocks, and none is left in the queue.
NoBlockLost ==
    ctl = "terminated" =>
        /\ queue = <<>>
        /\ Len(popLog) + dropped_blocks = block_counter

\* C6: push() appends its block at the tail whatever the depth, wakes at most
\* one waiter, and waits for nothing but the queue mutex, which a worker
\* blocked in pop() does not hold and which its holder can always release.
PushNeverBlocks ==
    /\ [](\A w \in Workers : wpc[w] \in {"waiting", "pop_relock"} => mtx # w)
    /\ [](mtx \in Workers => wpc[mtx] \in {"pop_pred", "pop_wait", "pop_check"})
    /\ [](ppc = "push_lock" /\ mtx = 0 => ENABLED PushLock)
    /\ [](ppc = "push_body" => mtx = ProducerId /\ ENABLED PushBody)
    /\ [][(ppc = "push_body" /\ ppc' # "push_body") =>
             /\ Len(queue') = Len(queue) + 1
             /\ queue' = Append(queue, SampleBlock(block_counter - 1, SAMPLES_PER_BLOCK))
             /\ Cardinality({w \in Workers : wpc[w] = "waiting" /\ wpc'[w] # "waiting"}) <= 1]_vars

\* C6 witness: one push has completed while both workers were blocked in
\* cv.wait; one of them was woken, the other still waits
PushNeverBlocksWitness ==
    /\ Len(pushLog) = 1
    /\ Len(queue) = 1
    /\ ppc \in {"loop", "count"}
    /\ \E v, w \in Workers : wpc[v] = "waiting" /\ wpc[w] = "pop_relock"

\* C7: a full block whose size() snapshot is at or above the threshold is
\* dropped (dropped_blocks + 1, queue and total_blocks unchanged); below the
\* threshold it goes on to be enqueued and dropped_blocks is unchanged.
LoadShedding ==
    [][(ppc = "decide" /\ ppc' # "decide") =>
          IF snap >= DropThreshold
          THEN /\ dropped_blocks' = dropped_blocks + 1
               /\ queue' = queue
               /\ total_blocks' = total_blocks
               /\ ppc' = "loop"
          ELSE /\ dropped_blocks' = dropped_blocks
               /\ ppc' = "push_lock"]_vars

\* C8: with threshold T, no pop, and N > T full-block receives, at every loop
\* boundary dropped_blocks >= N - T and the queue depth is at most T.
OverloadScenario ==
    (/\ HasDropPolicy(variant)
     /\ popLog = <<>>
     /\ ppc \in {"loop", "stop_cmd", "done"}
     /\ block_counter > DropThreshold) =>
        /\ dropped_blocks >= block_counter - DropThreshold
        /\ Len(queue) <= DropThreshold

\* C9: in a program that tests for the Timeout code, once recv has reported
\* Timeout the producer makes no further recv, pushes nothing more, and its
\* next move is to the stop command.
TimeoutFatal ==
    [][(HandlesTimeout(variant) /\ md = "TIMEOUT" /\ ppc # "recv") =>
          /\ recvCount' = recvCount
          /\ pushLog' = pushLog
          /\ (ppc' # ppc => ppc' \in {"stop_cmd", "done"})]_vars

\* C10: a receive classified as Overflow adds exactly one to overflow_count,
\* consumes no block number, enqueues nothing, leaves total_blocks and
\* dropped_blocks alone, and sends the producer back to its loop test.
OverflowEffect ==
    [][(ppc = "classify" /\ ppc' # "classify" /\ md = "OVERFLOW"
          /\ HandlesOverflow(variant)) =>
          /\ overflow_count' = overflow_count + 1
          /\ block_counter' = block_counter
          /\ queue' = queue
          /\ pushLog' = pushLog
          /\ total_blocks' = total_blocks
          /\ dropped_blocks' = dropped_blocks
          /\ max_size' = max_size
          /\ ppc' = "loop"]_vars

\* C10 witness: an overflow that came with a full buffer has been counted and
\* the producer is back at its loop test with no block number consumed
OverflowEffectWitness ==
    /\ ppc = "loop"
    /\ md = "OVERFLOW"
    /\ num_rx_samps = SAMPLES_PER_BLOCK
    /\ overflow_count = 1
    /\ block_counter = 0
    /\ recvCount = 1

\* the last receive delivered a full buffer and no error came with it: the
\* driver reported none, or the simulated producer injected none
CleanFullReceive ==
    /\ num_rx_samps = SAMPLES_PER_BLOCK
    /\ IF HardwareRecv(variant) THEN md = "NONE" ELSE ~injected

\* C11: an Overflow iteration does not carry over: whatever happened before,
\* a receive that returns a full buffer with no error is classified as a full
\* block, gets the next block number and goes on to the drop test or push.
OverflowNeverCarriesOver ==
    [][(ppc = "classify" /\ ppc' # "classify" /\ CleanFullReceive) =>
          /\ block_counter' = block_counter + 1
          /\ overflow_count' = overflow_count
          /\ ppc' = FullBlockTarget(variant)]_vars

\* C12: every block in the queue and every block a worker was handed by pop()
\* holds exactly SAMPLES_PER_BLOCK samples; a receive that returns another
\* count with no error enqueues nothing, consumes no block number and changes
\* no counter.
OnlyFullBlocks ==
    /\ [](\A i \in 1..Len(queue) : queue[i].num_samples = SAMPLES_PER_BLOCK)
    /\ [](\A w \in Workers :
            wpc[w] \in {"process", "report", "report_size"} =>
                wblock[w].num_samples = SAMPLES_PER_BLOCK)
    /\ [][(ppc = "classify" /\ ppc' # "classify" /\ md = "NONE"
            /\ num_rx_samps # SAMPLES_PER_BLOCK) =>
             /\ queue' = queue
             /\ pushLog' = pushLog
             /\ block_counter' = block_counter
             /\ UNCHANGED metrics
             /\ max_size' = max_size
             /\ ppc' = "loop"]_vars

\* C12 witness: after one block was pushed, a short error-free receive has
\* been classified and the producer is back at its loop test
OnlyFullBlocksWitness ==
    /\ ppc = "loop"
    /\ recvCount = 2
    /\ md = "NONE"
    /\ num_rx_samps = SAMPLES_PER_BLOCK - 1
    /\ block_counter = 1
    /\ pushLog = <<0>>

\* positions at which the producer holds a numbered block not yet pushed or
\* dropped
HoldsNumberedBlock == ppc \in {"size_check", "decide", "push_lock", "push_body"}

StopSignalOneShot ==
    /\ ~stop_signal
    /\ [][stop_signal' # stop_signal =>
             /\ ~stop_signal /\ stop_signal'
             /\ ctl = "running" /\ ctl' = "stopping"]_vars
    /\ [][stop_signal => stop_signal']_vars
    /\ [](stop_signal <=> ctl \in {"stopping", "joining", "terminated"})

\* C14 witness: the run has terminated with stop_signal still true, after the
\* producer had stopped on an error of its own
StopSignalOneShotWitness ==
    /\ stop_signal
    /\ ctl = "terminated"
    /\ md = "OTHER"
    /\ streamCmds = <<"START", "STOP">>

RECURSIVE SumProcessed(_)
SumProcessed(S) ==
    IF S = {} THEN 0
    ELSE LET w == CHOOSE x \in S : TRUE
         IN blocks_processed[w] + SumProcessed(S \ {w})

\* C17: if blocks 0..K-1 were pushed, none was dropped and the queue has been
\* emptied (stop_signal not being set before that), the block numbers the
\* workers took and processed are exactly 0..K-1, each once, whatever the
\* number of workers and the interleaving.
CompleteDrain ==
    /\ (dropped_blocks = 0 /\ queue = <<>> /\ ~HoldsNumberedBlock) =>
          /\ Len(popLog) = block_counter
          /\ \A i \in 1..Len(popLog) : popLog[i][2] = i - 1
    /\ (ctl = "terminated" /\ dropped_blocks = 0 /\ queue = <<>>) =>
          SumProcessed(Workers) = block_counter

\* C17 witness: three blocks were pushed and none dropped, both workers took
\* part in emptying the queue, and the run has terminated
CompleteDrainWitness ==
    /\ ctl = "terminated"
    /\ queue = <<>>
    /\ dropped_blocks = 0
    /\ block_counter = 3
    /\ \A w \in Workers : blocks_processed[w] >= 1

\* C18: when the producer has left its loop on a fatal receive error while
\* stop_signal was false, the run still ends: after main's store and
\* notify_all() every worker leaves pop(), the joins complete and main reaches
\* its summary.
FatalExitTerminates ==
    (FatalProducerExit /\ ~stop_signal) ~>
        ((\A w \in Workers : wpc[w] = "done") /\ ctl = "terminated")

\* C19: once the producer has left its loop on a fatal receive error, the
\* controller leaves Running and starts the shutdown without the run-time
\* sleep having to end.
FatalExitEndsRun ==
    (FatalProducerExit /\ ctl = "running") ~> (ctl # "running")

\* the order of main's positions: Idle (idle, spawning), Running, Stopping
\* (stopping, joining), Terminated
CtlRank ==
    [c \in {"idle", "spawning", "running", "stopping", "joining", "terminated"} |->
        CASE c = "idle" -> 0
          [] c = "spawning" -> 1
          [] c = "running" -> 2
          [] c = "stopping" -> 3
          [] c = "joining" -> 4
          [] c = "terminated" -> 5]

\* C20: the controller starts Idle and only ever moves one step forward, to
\* Running, Stopping, Terminated; every thread has been started before
\* stop_signal is set; stop_signal is set before notify_all(); notify_all() is
\* called once, before the first join; Terminated is reached only after the
\* producer and every worker have ended.
LifecycleOrder ==
    /\ ctl = "idle"
    /\ [][ctl' # ctl => CtlRank[ctl'] = CtlRank[ctl] + 1]_vars
    /\ [](stop_signal =>
            /\ nspawned = NumWorkers
            /\ ppc # "unstarted"
            /\ \A w \in Workers : wpc[w] # "unstarted")
    /\ [](CtlRank[ctl] >= 4 => stop_signal)
    /\ [][(ctl = "stopping" /\ ctl' = "joining") => wpc' = NotifyAll(wpc)]_vars
    /\ [](joined > 0 => CtlRank[ctl] >= 4)
    /\ [](ctl = "terminated" =>
            /\ joined = NumWorkers + 1
            /\ ppc = "done"
            /\ \A w \in Workers : wpc[w] = "done")

\* C20 witness: the run has terminated after a full start/stop of the stream,
\* every thread joined, with a block left behind in the queue
LifecycleOrderWitness ==
    /\ ctl = "terminated"
    /\ joined = NumWorkers + 1
    /\ streamCmds = <<"START", "STOP">>
    /\ queue # <<>>

\* C21: once stop_signal is true the producer completes at most the one
\* receive it had begun and pushes at most one more block; its next loop test
\* leaves the loop, also after an Overflow or any other result that sends it
\* back to the test, and after that receive it begins no other.
CooperativeCancel ==
    /\ [](stop_signal =>
            /\ recvCount <= stopAt.recv + 1
            /\ Len(pushLog) <= stopAt.pushed + 1
            /\ (recvCount = stopAt.recv + 1 => ppc # "recv"))
    /\ [][(stop_signal /\ ppc = "loop" /\ ppc' # "loop") =>
             ppc' = AfterLoop(variant)]_vars

\* C21 witness: the receive in flight when stop_signal was set has completed
\* and its block was pushed; the producer has ended
CooperativeCancelWitness ==
    /\ stop_signal
    /\ stopAt.recv = 1
    /\ recvCount = 2
    /\ Len(pushLog) = stopAt.pushed + 1
    /\ ppc = "done"

\* C22: a worker does not leave its loop while the queue is non-empty, so a
\* block that is queued when stop_signal is set, or pushed after that, is
\* still popped before the workers exit.
DrainOnShutdown ==
    [][\A w \in Workers :
         (wpc[w] \in {"loop", "pop_check"} /\ wpc'[w] = "exit") => queue = <<>>]_vars

\* C23: the outcome of a shutdown does not depend on scheduling. For the
\* fixed input "every receive returns a full error-free block" and the fixed
\* stop point "after the third receive and the third push", the blocks
\* consumed at Terminated are the same in every run: all three, as the drain
\* rule says.
ShutdownDeterministic ==
    (/\ ctl = "terminated"
     /\ ~HasDropPolicy(variant)
     /\ block_counter = 3
     /\ recvCount = 3
     /\ stopAt = [recv |-> 3, pushed |-> 3]) =>
        /\ Len(popLog) = 3
        /\ queue = <<>>

\* C24: in every program at most one worker at a time is between the start
\* and the end of writing a per-block report line.
SerializedOutput ==
    Cardinality({w \in Workers : wpc[w] = "report_size"}) <= 1

\* the sum over the samples of I*I + Q*Q
RECURSIVE SumOfSquares(_)
SumOfSquares(b) ==
    IF b = <<>> THEN 0
    ELSE Head(b)[1] * Head(b)[1] + Head(b)[2] * Head(b)[2] + SumOfSquares(Tail(b))

\* C25: the average power computed for a block of N samples is (sum of
\* I*I + Q*Q) / N; the computation changes neither the block nor any shared
\* state; a second computation on the same block gives the same value; an
\* all-zero block gives 0 and a block of the constant sample a+bi gives
\* a*a + b*b.
AveragePowerPure ==
    /\ [](power_pc = "done" =>
            /\ avg_power.num * Len(samples) = SumOfSquares(samples) * avg_power.den
            /\ avg_power.den > 0
            /\ ((\A i \in 1..Len(samples) : samples[i] = <<0, 0>>) =>
                   avg_power = [num |-> 0, den |-> 1])
            /\ \A a, b \in SampleValues :
                   (\A i \in 1..Len(samples) : samples[i] = <<a, b>>) =>
                      avg_power = [num |-> a * a + b * b, den |-> 1]
            /\ avg_power = first_power)
    /\ [][samples' = samples /\ UNCHANGED pipevars]_vars

\* C25 witness: the power of a three-sample block of the constant 2 - i has
\* been computed twice
AveragePowerPureWitness ==
    /\ power_pc = "done"
    /\ power_run = 2
    /\ samples = <<<<2, -1>>, <<2, -1>>, <<2, -1>>>>
    /\ avg_power = [num |-> 5, den |-> 1]

\* C26: with a number of arguments the program refuses, or an argument that
\* is not a number, no producer or worker is ever started, stop_signal and
\* every counter keep their initial values, and the process ends with a
\* non-zero status.
ConfigErrorRejected ==
    /\ [](args \in {"bad_count", "not_a_number"} =>
            /\ ctl = "idle"
            /\ ppc = "unstarted"
            /\ \A w \in Workers : wpc[w] = "unstarted"
            /\ nspawned = 0
            /\ ~stop_signal
            /\ overflow_count = 0 /\ total_blocks = 0 /\ dropped_blocks = 0
            /\ max_size = 0
            /\ queue = <<>>
            /\ exit_status # "zero"
            /\ (exit_status = "none" => ENABLED CtlReject))
    /\ [][exit_status # "none" => exit_status' = exit_status]_vars

\* C26 witness: a program that wants three arguments was given another
\* number of them and has ended with a non-zero status
ConfigErrorRejectedWitness ==
    /\ args = "bad_count"
    /\ ChecksArgCount(variant)
    /\ exit_status = "nonzero"

\* C27: overflow_count, total_blocks, dropped_blocks and max_size are 0 at
\* process start, and no step of any thread makes one of them smaller; the
\* three counters move by one at a time.
MetricsNeverReset ==
    /\ overflow_count = 0 /\ total_blocks = 0 /\ dropped_blocks = 0 /\ max_size = 0
    /\ [][/\ overflow_count' \in {overflow_count, overflow_count + 1}
          /\ total_blocks' \in {total_blocks, total_blocks + 1}
          /\ dropped_blocks' \in {dropped_blocks, dropped_blocks + 1}
          /\ max_size' >= max_size]_vars

\* C27 witness: at the end of a run total_blocks, dropped_blocks and max_size
\* all stand above zero
MetricsNeverResetWitness ==
    /\ ctl = "terminated"
    /\ total_blocks = 2
    /\ dropped_blocks = 1
    /\ max_size = 2

\* C28: no metric (overflow_count, total_blocks, dropped_blocks, max_size) is
\* updated by a thread that holds the queue mutex.
MetricsOutsideLock ==
    [][(\/ overflow_count' # overflow_count
        \/ total_blocks' # total_blocks
        \/ dropped_blocks' # dropped_blocks
        \/ max_size' # max_size) => mtx # ProducerId]_vars

\* C29: at most one thread is inside the body of push(), of pop() outside
\* its wait, or of size(); the container is read and written only by the
\* thread that holds the queue mutex; a worker blocked in pop() does not hold
\* it.
QueueMutualExclusion ==
    /\ [](mtx \in {0, ProducerId} \cup Workers)
    /\ [](ppc = "push_body" <=> mtx = ProducerId)
    /\ [](\A w \in Workers :
            /\ (wpc[w] \in {"pop_pred", "pop_wait", "pop_check"} <=> mtx = w)
            /\ (wpc[w] \in {"waiting", "pop_relock"} => mtx # w))
    /\ [][queue' # queue =>
             \/ mtx = ProducerId /\ ppc = "push_body"
             \/ mtx \in Workers /\ wpc[mtx] = "pop_check" /\ wpc'[mtx] = "process"]_vars
    /\ [][(\/ ppc = "size_check" /\ ppc' # "size_check"
           \/ \E w \in Workers : wpc[w] = "report_size" /\ wpc'[w] # "report_size") =>
             mtx = 0 /\ mtx' = 0 /\ queue' = queue]_vars

\* C29 witness: a worker holds the mutex inside pop() with a block to take,
\* the producer stands at the lock of push(), and the other worker is blocked
\* in the wait
QueueMutualExclusionWitness ==
    /\ ppc = "push_lock"
    /\ queue # <<>>
    /\ \E v, w \in Workers :
         /\ mtx = w /\ wpc[w] = "pop_check"
         /\ wpc[v] = "waiting"

\* C30: outside push() and pop() the number of blocks pushed equals the
\* number popped plus the queue depth, and the workers' blocks_processed
\* together never exceed the number of blocks pushed.
BlockConservation ==
    /\ Len(pushLog) = Len(popLog) + Len(queue)
    /\ SumProcessed(Workers) <= Len(popLog)
    /\ SumProcessed(Workers) <= Len(pushLog)

\* C30 witness: in the fast simulation three blocks were pushed, two popped,
\* one of those is counted as processed and one is still queued
BlockConservationWitness ==
    /\ variant = "fast_sim"
    /\ Len(pushLog) = 3
    /\ Len(popLog) = 2
    /\ Len(queue) = 1
    /\ SumProcessed(Workers) = 1

BoundedQueueDepth ==
    variant = "rate_test" =>
        /\ Len(queue) <= DropThreshold + 1
        /\ (ppc \in {"decide", "push_lock", "push_body"} => Len(queue) <= snap)

\* C32 witness: the rate-test queue at its largest depth, reached by a push
\* whose snapshot was exactly the threshold
BoundedQueueDepthWitness ==
    /\ variant = "rate_test"
    /\ Len(queue) = DropThreshold + 1
    /\ snap = DropThreshold
    /\ ppc = "count"

\* the threads that take the two mutexes
Threads == Workers \cup {ProducerId}

\* thread t stands at a lock of the queue mutex: push(), pop(), the re-lock
\* after cv.wait, size()
WaitsForQueueMutex(t) ==
    IF t = ProducerId
    THEN ppc \in {"size_check", "push_lock"}
    ELSE wpc[t] \in {"pop_lock", "pop_relock", "report_size"}

\* thread t stands at a lock of the console mutex
WaitsForConsole(t) ==
    IF t = ProducerId
    THEN ppc = "start" /\ variant \notin {"fast_sim", "part_003"}
    ELSE \/ wpc[t] \in {"start", "exit"} /\ LocksProgressLines(variant)
         \/ wpc[t] = "report" /\ LocksReport(variant)

\* C33: the two mutexes are taken in one order only: no thread stands at a
\* lock of the console mutex while it holds the queue mutex, so there is no
\* state in which the console holder waits for the queue mutex while the
\* queue-mutex holder waits for the console.
LockOrdering ==
    /\ \A t \in Threads : mtx = t => ~WaitsForConsole(t)
    /\ ~ \E a, b \in Threads :
           /\ console_mutex = a /\ WaitsForQueueMutex(a)
           /\ mtx = b /\ WaitsForConsole(b)

\* C33 witness: a worker holds the console mutex and stands at size() while
\* another thread holds the queue mutex
LockOrderingWitness ==
    \E w \in Workers :
        /\ console_mutex = w
        /\ wpc[w] = "report_size"
        /\ mtx \notin {0, w}

\* C34: while stop_signal is false no worker leaves its loop: a worker past
\* the wait of pop() finds a block or the flag set, so the trailing
\* "return false" of pop() is never taken, and a worker goes to its exit only
\* in a step that sees stop_signal true - also after the producer has ended
\* on a fatal error.
WorkersStayUntilStop ==
    /\ [](\A w \in Workers :
            /\ wpc[w] = "pop_check" => (queue # <<>> \/ stop_signal)
            /\ wpc[w] \in {"exit", "done"} => stop_signal)
    /\ [][\A w \in Workers :
             (wpc[w] # "exit" /\ wpc'[w] = "exit") => stop_signal]_vars

\* C34 witness: the producer has ended on a fatal error, stop_signal is still
\* false, and the workers, having popped what was pushed, are inside pop()
WorkersStayUntilStopWitness ==
    /\ FatalProducerExit
    /\ ppc = "done"
    /\ ~stop_signal
    /\ Len(popLog) >= 1
    /\ \A w \in Workers : wpc[w] = "waiting"

\* C35: in the programs that issue a stop command, the producer issues START
\* at most once and STOP only after it, and a producer that has issued START
\* ends only by issuing STOP, whichever way it left its loop; a producer that
\* has ended without START (the LO did not lock) has issued no command,
\* received nothing and pushed no block.
StreamingAlwaysStopped ==
    /\ [](HasStopCmd(variant) =>
            /\ streamCmds \in {<<>>, <<"START">>, <<"START", "STOP">>}
            /\ (ppc = "done" => streamCmds # <<"START">>)
            /\ (ppc = "done" /\ streamCmds = <<>> =>
                    pushLog = <<>> /\ total_blocks = 0 /\ recvCount = 0))
    /\ [][(HasStopCmd(variant) /\ ppc \notin {"start", "done"} /\ ppc' = "done")
             => streamCmds' = <<"START", "STOP">>]_vars

\* C35 witness: a producer that left its loop on a fatal error has issued
\* START and then STOP and has ended
StreamingAlwaysStoppedWitness ==
    /\ HasStopCmd(variant)
    /\ FatalProducerExit
    /\ ppc = "done"
    /\ streamCmds = <<"START", "STOP">>
    /\ ~stop_signal

\* C36: in the hardware rate-test program the value printed as "Max Queue
\* Size" after all threads are joined is the queue's max_size.
ReportedMaxQueueSize ==
    (HasMonitor(variant) /\ ctl = "terminated") => queue_max_size = max_size

====
